---- MODULE Spec2Model ----
(***************************************************************************)
(* CalcPro / SilentShield: the encrypted dual-vault storage engine         *)
(* (lib/encryption.ts, lib/storage.ts), the session layer on top of it     *)
(* (lib/app-context.tsx) and the first-run PIN setup screen (PinSetup).    *)
(*                                                                         *)
(* Six specifications share the variables:                                *)
(*   SpecStore  the storage API called sequentially with arbitrary         *)
(*              arguments (one action per exported function);              *)
(*   Spec       the React session: every async context function is a task *)
(*              that yields at its awaits of the storage API, so calls     *)
(*              interleave with each other and with lockVault;             *)
(*   SpecSetup  the PinSetup keypad with its 200 ms deferred callbacks;    *)
(*   SpecCrypto encrypt and decrypt applied to arbitrary plaintexts, PINs   *)
(*              and random draws;                                           *)
(*   SpecCalc   the Calculator keypad (components/Calculator.tsx) with the  *)
(*              PIN buffer and the unlock attempt behind its '=' key;       *)
(*   SpecClear  a set-up app whose vaults are used, wiped with             *)
(*              clearAllData and set up again.                             *)
(*                                                                         *)
(* Granularity: one of loadEvidence, saveEvidence, verifyPin, deleteMedia  *)
(* is one atomic step; the awaits between them are interleaving points. A  *)
(* context function's call runs with the first storage call it makes.      *)
(***************************************************************************)
EXTENDS Integers, Sequences, FiniteSets, TLC

\* ------------------------------------------------------------------ bounds
MaxAdds == 2
NumSalts == 1
MaxTasks == 2
MaxTimers == 2

\* ------------------------------------------------------- program constants
PIN_LENGTH == 4

\* ------------------------------------------------------------------ domains
Types == {"secret", "decoy"}
\* The keypad is exercised with the keys 1, 2 and delete, typing these PINs.
Digits == {"1", "2"}
TypedPins == {<<"1", "1", "1", "1">>, <<"1", "1", "1", "2">>}
IsTyped(p) == \E q \in TypedPins : Len(p) <= Len(q) /\ SubSeq(q, 1, Len(p)) = p
Pins == {"1234", "0000", "9999"}
Salts == 1..NumSalts
EvidenceTypes == {"note", "photo"}
Timestamps == {1, 2}
Faults == {"none", "nodir", "fswrite", "async", "secure"}
CorruptKinds == {"garbage", "badjson", "nonarray"}

Other(t) == IF t = "secret" THEN "decoy" ELSE "secret"

\* ---------------------------------------------------------------- variables
VARIABLES
  secure,      \* SecureStore: secret_hash, decoy_hash, is_setup
  file,        \* primary slot per vault: vault_data_<type>.enc
  legacy,      \* legacy AsyncStorage slot per vault
  fsOk,        \* AsyncStorage "<key>_fs_ok" indicator per vault
  media,       \* media files present in the vault directory (by item id)
  nextId,      \* ids handed out so far (generateId is unique per item)
  cfgWrite,    \* saveConfig in progress: the next write and the config
  lastCall,    \* history: the storage API call made by the last step
  everSaved,   \* history: saveEvidence was called for the vault
  addLog,      \* history: items of the successful adds, while only adds ran
  mode, isLoading, currentPin, vaultType, evidence,   \* AppProvider state
  tasks,       \* async context functions in flight
  alerts,      \* history: the Alert raised by the last step ("" if none)
  locked,      \* history: lockVault ran and no unlock has verified since
  added,       \* history: items whose addEvidence returned, per vault
  step, pin, secretPin, decoyPin, error,   \* PinSetup state
  timers,      \* pending setTimeout callbacks of PinSetup, FIFO
  setupCalls,  \* history: the arguments of every setupPins call
  plaintext, encPin,   \* the arguments m and p of the encrypt calls
  envelopes,   \* the envelopes encrypt returned, latest first
  draws,       \* history: the random draw of each of those calls
  attempt,     \* the last decrypt call: its arguments and its result
  display, previousValue, operation, shouldResetDisplay, pinBuffer,   \* Calculator state
  pinTimeout,  \* the 5 s timer that clears pinBuffer is pending
  equalsTasks, \* handleEquals calls waiting for unlockVault
  plain,       \* reference: a calculator whose '=' makes no PIN check
  unlockTries, \* history: the buffers unlockVault was called with
  presses      \* history: the number of keys pressed

storeVars == <<secure, file, legacy, fsOk, media>>
histVars == <<nextId, cfgWrite, lastCall, everSaved, addLog>>
sessVars == <<mode, isLoading, currentPin, vaultType, evidence, tasks, alerts, locked, added>>
setupVars == <<step, pin, secretPin, decoyPin, error, timers, setupCalls>>
cryptoVars == <<plaintext, encPin, envelopes, draws, attempt>>
calcVars == <<display, previousValue, operation, shouldResetDisplay, pinBuffer,
              pinTimeout, equalsTasks, plain, unlockTries, presses>>
vars == <<storeVars, histVars, sessVars, setupVars, cryptoVars, calcVars>>

\* ------------------------------------------------------------ encryption.ts
\* Texts (JavaScript strings holding JSON or not) and envelopes.
EmptyText == [t |-> "empty", items |-> <<>>]
MalformedText == [t |-> "malformed", items |-> <<>>]
\* The JSON text of a value that is neither an array nor null: '{}', '7'.
ValueText == [t |-> "value", items |-> <<>>]

JSONstringify(items) == [t |-> "array", items |-> items]

\* JSON.parse: ok = FALSE stands for the SyntaxError it throws.
JSONparse(text) ==
  IF text.t = "array" THEN [ok |-> TRUE, array |-> TRUE, val |-> text.items]
  ELSE IF text.t = "value" THEN [ok |-> TRUE, array |-> FALSE, val |-> <<>>]
  ELSE [ok |-> FALSE, array |-> FALSE, val |-> <<>>]

hashPin(p) == <<"sha256", p, "silentshield_salt_v1">>
NoHash == <<>>

deriveKey(p, salt) == <<"pbkdf2", p, salt>>

AESencrypt(data, key) == [key |-> key, plain |-> data]

\* CryptoJS unpads without validating and toString(Utf8) throws on bytes
\* that are not UTF-8: under a wrong key the outcome is fixed by the
\* ciphertext, for most ciphertexts an exception or the empty string, for
\* some a short garbage string. The salt stands for the ciphertext's draw.
WrongKeyYieldsText(salt) == salt % 2 = 0

\* thrown = TRUE stands for the "Malformed UTF-8 data" error.
AESdecrypt(ct, key, salt) ==
  IF key = ct.key THEN [thrown |-> FALSE, text |-> ct.plain]
  ELSE IF WrongKeyYieldsText(salt) THEN [thrown |-> FALSE, text |-> MalformedText]
  ELSE [thrown |-> TRUE, text |-> EmptyText]

NoCipher == [key |-> <<>>, plain |-> EmptyText]
Absent == [kind |-> "absent", salt |-> 0, data |-> NoCipher]
Garbage == [kind |-> "garbage", salt |-> 0, data |-> NoCipher]
EmptyFile == [kind |-> "empty", salt |-> 0, data |-> NoCipher]

\* encrypt: the salt is generateSalt()'s draw, an input of the model.
encrypt(data, p, salt) ==
  [kind |-> "envelope", salt |-> salt, data |-> AESencrypt(data, deriveKey(p, salt))]

\* Mutant: decrypt without its test of an empty result.
decrypt_NoEmptyTest(payload, p) ==
  IF payload.kind # "envelope" THEN [null |-> TRUE, text |-> EmptyText]
  ELSE LET bytes == AESdecrypt(payload.data, deriveKey(p, payload.salt), payload.salt)
       IN IF bytes.thrown
          THEN [null |-> TRUE, text |-> EmptyText]
          ELSE [null |-> FALSE, text |-> bytes.text]

\* decrypt: null = TRUE is the null it returns.
decrypt(payload, p) ==
  IF payload.kind # "envelope" THEN [null |-> TRUE, text |-> EmptyText]
  ELSE LET bytes == AESdecrypt(payload.data, deriveKey(p, payload.salt), payload.salt)
       IN IF bytes.thrown \/ bytes.text.t = "empty"
          THEN [null |-> TRUE, text |-> EmptyText]
          ELSE [null |-> FALSE, text |-> bytes.text]

\* --------------------------------------------------------------- storage.ts
\* Every platform call can fail: f is the fault the call meets, "none" for
\* none ("nodir": FileSystem.documentDirectory is null; "fswrite":
\* writeAsStringAsync throws; "async": AsyncStorage throws, which in
\* loadEvidence reaches the outer catch; "secure": SecureStore throws).
getEvidenceKey(t) == t

\* Mutant: one file for both vaults.
getEvidenceFilePath_Shared(t, f) == IF f = "nodir" THEN "" ELSE "secret"

getEvidenceFilePath(t, f) == IF f = "nodir" THEN "" ELSE t

\* Mutant: a SecureStore error is not turned into "not set up".
isAppSetup_IgnoresError(f) == secure.isSetup = "true"

isAppSetup(f) == IF f = "secure" THEN FALSE ELSE secure.isSetup = "true"

\* Mutant: the decoy hash is compared first.
verifyPin_DecoyFirst(p, f) ==
  IF ~isAppSetup(f) THEN "invalid"
  ELSE LET pinHash == hashPin(p)
       IN IF pinHash = secure.decoyHash THEN "decoy"
          ELSE IF pinHash = secure.secretHash THEN "secret"
          ELSE "invalid"

verifyPin(p, f) ==
  IF ~isAppSetup(f) THEN "invalid"
  ELSE LET pinHash == hashPin(p)
       IN IF pinHash = secure.secretHash THEN "secret"
          ELSE IF pinHash = secure.decoyHash THEN "decoy"
          ELSE "invalid"

\* What loadEvidence returns: null, an item list, or (array = FALSE) a
\* parsed value that is not a list.
NullResult == [null |-> TRUE, array |-> FALSE, items |-> <<>>]
ItemsResult(items) == [null |-> FALSE, array |-> TRUE, items |-> items]
ValueResult == [null |-> FALSE, array |-> FALSE, items |-> <<>>]

\* Mutant: a blob that does not decrypt or parse reads as an empty vault.
loadEvidence_EmptyOnFailure(p, t, f) ==
  IF getEvidenceFilePath(t, f) = "" THEN [res |-> NullResult, migrate |-> FALSE]
  ELSE LET exists == file[getEvidenceFilePath(t, f)].kind # "absent"
           encrypted == IF exists THEN file[getEvidenceFilePath(t, f)]
                        ELSE legacy[getEvidenceKey(t)]
       IN IF encrypted.kind \in {"absent", "empty"}
          THEN [res |-> ItemsResult(<<>>), migrate |-> FALSE]
          ELSE IF decrypt(encrypted, p).null \/ ~JSONparse(decrypt(encrypted, p).text).ok
          THEN [res |-> ItemsResult(<<>>), migrate |-> FALSE]
          ELSE [res |-> ItemsResult(JSONparse(decrypt(encrypted, p).text).val),
                migrate |-> ~exists /\ f # "fswrite"]

\* Mutant: a vault with no blob in either slot reads as a failure.
loadEvidence_NullOnAbsent(p, t, f) ==
  IF getEvidenceFilePath(t, f) = "" THEN [res |-> NullResult, migrate |-> FALSE]
  ELSE LET exists == file[getEvidenceFilePath(t, f)].kind # "absent"
           encrypted == IF exists THEN file[getEvidenceFilePath(t, f)]
                        ELSE legacy[getEvidenceKey(t)]
       IN IF encrypted.kind \in {"absent", "empty"}
          THEN [res |-> NullResult, migrate |-> FALSE]
          ELSE IF decrypt(encrypted, p).null \/ ~JSONparse(decrypt(encrypted, p).text).ok
          THEN [res |-> NullResult, migrate |-> FALSE]
          ELSE [res |-> ItemsResult(JSONparse(decrypt(encrypted, p).text).val),
                migrate |-> ~exists /\ f # "fswrite"]

\* loadEvidence: what it returns and whether it writes the migration copy.
loadEvidence(p, t, f) ==
  IF getEvidenceFilePath(t, f) = "" THEN [res |-> NullResult, migrate |-> FALSE]
  ELSE LET exists == file[getEvidenceFilePath(t, f)].kind # "absent"
       IN IF ~exists /\ f = "async" THEN [res |-> NullResult, migrate |-> FALSE]
          ELSE LET encrypted == IF exists THEN file[getEvidenceFilePath(t, f)]
                                ELSE legacy[getEvidenceKey(t)]
               IN IF encrypted.kind \in {"absent", "empty"}
                  THEN [res |-> ItemsResult(<<>>), migrate |-> FALSE]
                  ELSE LET decrypted == decrypt(encrypted, p)
                       IN IF decrypted.null THEN [res |-> NullResult, migrate |-> FALSE]
                          ELSE LET parsed == JSONparse(decrypted.text)
                               IN IF ~parsed.ok
                                  THEN [res |-> NullResult, migrate |-> FALSE]
                                  ELSE [res |-> IF parsed.array
                                                THEN ItemsResult(parsed.val)
                                                ELSE ValueResult,
                                        migrate |-> ~exists /\ f # "fswrite"]

\* Mutant: a load from the legacy slot never copies it to the file.
FileAfterLoad_NoMigration(p, t, f, fl) == fl

\* The file slots after loadEvidence(p, t) ran on the slots fl.
FileAfterLoad(p, t, f, fl) ==
  IF loadEvidence(p, t, f).migrate
  THEN [fl EXCEPT ![getEvidenceFilePath(t, f)] = legacy[getEvidenceKey(t)]]
  ELSE fl

\* saveEvidence on the slots fl and flags ok: thrown, and the slots after it.
saveEvidence(items, p, t, salt, f, fl, ok) ==
  IF getEvidenceFilePath(t, f) = "" THEN [thrown |-> TRUE, file |-> fl, fsOk |-> ok]
  ELSE LET data == JSONstringify(items)
           encrypted == encrypt(data, p, salt)
       IN IF f = "fswrite" THEN [thrown |-> TRUE, file |-> fl, fsOk |-> ok]
          ELSE IF f = "async"
               THEN [thrown |-> TRUE,
                     file |-> [fl EXCEPT ![getEvidenceFilePath(t, f)] = encrypted],
                     fsOk |-> ok]
          ELSE [thrown |-> FALSE,
                file |-> [fl EXCEPT ![getEvidenceFilePath(t, f)] = encrypted],
                fsOk |-> [ok EXCEPT ![getEvidenceKey(t)] = TRUE]]

\* Mutant: the new item goes to the end.
unshift_Push(items, item) == items \o <<item>>

unshift(items, item) == <<item>> \o items

\* Mutant: the filter drops nothing.
filterOut_KeepsAll(items, id) == items

RECURSIVE filterOut(_, _)
filterOut(items, id) ==
  IF items = <<>> THEN <<>>
  ELSE IF Head(items).id # id THEN <<Head(items)>> \o filterOut(Tail(items), id)
  ELSE filterOut(Tail(items), id)

\* Mutant: a failed load is taken for an empty vault.
addEvidence_NullAsEmpty(item, p, t, salt, f, g) ==
  LET items == loadEvidence(p, t, f).res
      fl == FileAfterLoad(p, t, f, file)
      s == saveEvidence(unshift(items.items, item), p, t, salt, g, fl, fsOk)
  IN [thrown |-> s.thrown, saved |-> TRUE, file |-> s.file, fsOk |-> s.fsOk]

\* addEvidence, its load meeting fault f and its save fault g: thrown,
\* saved (saveEvidence was called), and the slots after.
addEvidence(item, p, t, salt, f, g) ==
  LET items == loadEvidence(p, t, f).res
      fl == FileAfterLoad(p, t, f, file)
  IN IF items.null \/ ~items.array
     THEN [thrown |-> TRUE, saved |-> FALSE, file |-> fl, fsOk |-> fsOk]
     ELSE LET s == saveEvidence(unshift(items.items, item), p, t, salt, g, fl, fsOk)
          IN [thrown |-> s.thrown, saved |-> TRUE, file |-> s.file, fsOk |-> s.fsOk]

\* deleteEvidence: as addEvidence; a failed load returns without throwing.
\* On a loaded value that is not a list, unshift and filter are not
\* functions: both calls throw a TypeError before saving.
deleteEvidence(id, p, t, salt, f, g) ==
  LET items == loadEvidence(p, t, f).res
      fl == FileAfterLoad(p, t, f, file)
  IN IF items.null THEN [thrown |-> FALSE, saved |-> FALSE, file |-> fl, fsOk |-> fsOk]
     ELSE IF ~items.array
     THEN [thrown |-> TRUE, saved |-> FALSE, file |-> fl, fsOk |-> fsOk]
     ELSE LET s == saveEvidence(filterOut(items.items, id), p, t, salt, g, fl, fsOk)
          IN [thrown |-> s.thrown, saved |-> TRUE, file |-> s.file, fsOk |-> s.fsOk]

\* saveConfig: three SecureStore writes, is_setup last. cfgWrite.pc is the
\* write that comes next (0: no saveConfig in progress).
NoConfig == [pc |-> 0, secretPinHash |-> NoHash, decoyPinHash |-> NoHash]

\* Mutant: the is_setup flag is written first, the hashes after it.
saveConfigWrite_FlagFirst(f) ==
  /\ cfgWrite.pc > 0
  /\ IF f = "secure"
     THEN /\ cfgWrite' = NoConfig
          /\ UNCHANGED secure
     ELSE /\ secure' = CASE cfgWrite.pc = 1 -> [secure EXCEPT !.isSetup = "true"]
                         [] cfgWrite.pc = 2 -> [secure EXCEPT !.secretHash = cfgWrite.secretPinHash]
                         [] OTHER -> [secure EXCEPT !.decoyHash = cfgWrite.decoyPinHash]
          /\ cfgWrite' = IF cfgWrite.pc = 3 THEN NoConfig
                         ELSE [cfgWrite EXCEPT !.pc = cfgWrite.pc + 1]

saveConfigWrite(f) ==
  /\ cfgWrite.pc > 0
  /\ IF f = "secure"
     THEN /\ cfgWrite' = NoConfig
          /\ UNCHANGED secure
     ELSE /\ secure' = CASE cfgWrite.pc = 1 -> [secure EXCEPT !.secretHash = cfgWrite.secretPinHash]
                         [] cfgWrite.pc = 2 -> [secure EXCEPT !.decoyHash = cfgWrite.decoyPinHash]
                         [] OTHER -> [secure EXCEPT !.isSetup = "true"]
          /\ cfgWrite' = IF cfgWrite.pc = 3 THEN NoConfig
                         ELSE [cfgWrite EXCEPT !.pc = cfgWrite.pc + 1]

\* A stored file damaged or replaced outside the app: a malformed
\* envelope, an envelope whose plaintext is no longer JSON, or one whose
\* plaintext is the JSON of something other than a list.
CorruptBlob(b, kind) ==
  IF kind = "garbage" THEN Garbage
  ELSE IF kind = "badjson" THEN [b EXCEPT !.data.plain = MalformedText]
  ELSE [b EXCEPT !.data.plain = ValueText]

\* ------------------------------------------------------------------- items
NoItem == [id |-> 0, type |-> "note", timestamp |-> 0]
NewItems == {[id |-> nextId + 1, type |-> ty, timestamp |-> ts] :
               ty \in EvidenceTypes, ts \in Timestamps}
NewNotes == {i \in NewItems : i.type = "note"}
CanCreate == nextId < MaxAdds

\* The item list a blob holds, whatever the key.
Persisted(t) == file[t].data.plain.items

RECURSIVE Reverse(_)
Reverse(s) == IF s = <<>> THEN <<>> ELSE Reverse(Tail(s)) \o <<Head(s)>>

\* ----------------------------------------------------- SpecStore: the API
\* lastCall: the call, its vault, whether its load returned null and
\* whether it threw.
NoCall == [op |-> "", type |-> "", null |-> FALSE, thrown |-> FALSE]
FreshLog == [valid |-> TRUE, adds |-> <<>>]
Invalidate(log, t) == [log EXCEPT ![t] = [valid |-> FALSE, adds |-> <<>>]]

LegacyItem == [id |-> 0, type |-> "note", timestamp |-> 2]
LegacyBlob(p) == encrypt(JSONstringify(<<LegacyItem>>), p, 1)
\* The storage API is exercised with a right and a wrong PIN, and with the
\* faults its functions can meet.
StorePins == {"1234", "0000"}
StoreFaults == Faults \ {"secure"}

InitStorage ==
  /\ secure = [secretHash |-> NoHash, decoyHash |-> NoHash, isSetup |-> ""]
  /\ file = [t \in Types |-> Absent]
  /\ fsOk = [t \in Types |-> FALSE]
  /\ media = {}
  /\ nextId = 0
  /\ cfgWrite = NoConfig
  /\ lastCall = NoCall
  /\ everSaved = [t \in Types |-> FALSE]
  /\ addLog = [t \in Types |-> FreshLog]

InitSession ==
  /\ mode = "calculator"
  /\ isLoading = TRUE
  /\ currentPin = ""
  /\ vaultType = "null"
  /\ evidence = <<>>
  /\ tasks = {}
  /\ alerts = ""
  /\ locked = TRUE
  /\ added = [t \in Types |-> {}]

\* No encrypt or decrypt call has been made on its own.
NoAttempt == [called |-> FALSE, pin |-> "", payload |-> Absent,
              null |-> TRUE, text |-> EmptyText]

InitCrypto ==
  /\ plaintext = EmptyText
  /\ encPin = ""
  /\ envelopes = <<>>
  /\ draws = <<>>
  /\ attempt = NoAttempt

\* Calculator's useState initial values.
CalcState(d, pv, op, reset) ==
  [display |-> d, previousValue |-> pv, operation |-> op, shouldResetDisplay |-> reset]

InitCalc ==
  /\ display = <<"0">>
  /\ previousValue = <<>>
  /\ operation = "null"
  /\ shouldResetDisplay = FALSE
  /\ pinBuffer = <<>>
  /\ pinTimeout = FALSE
  /\ equalsTasks = {}
  /\ plain = CalcState(<<"0">>, <<>>, "null", FALSE)
  /\ unlockTries = {}
  /\ presses = 0

InitSetup ==
  /\ step = "secret"
  /\ pin = <<>>
  /\ secretPin = <<>>
  /\ decoyPin = <<>>
  /\ error = ""
  /\ timers = <<>>
  /\ setupCalls = {}

StoreInit ==
  /\ InitStorage
  /\ legacy = [t \in Types |-> IF t = "secret" THEN LegacyBlob("1234") ELSE Absent]
  /\ InitSession
  /\ InitSetup
  /\ InitCrypto
  /\ InitCalc

StLoad(p, t, f) ==
  /\ lastCall' = [op |-> "loadEvidence", type |-> t,
                  null |-> loadEvidence(p, t, f).res.null, thrown |-> FALSE]
  /\ file' = FileAfterLoad(p, t, f, file)
  /\ UNCHANGED <<secure, legacy, fsOk, media, nextId, cfgWrite, everSaved, addLog>>
  /\ UNCHANGED <<sessVars, setupVars, cryptoVars, calcVars>>

StSave(items, p, t, salt, f) ==
  LET s == saveEvidence(items, p, t, salt, f, file, fsOk)
  IN /\ file' = s.file
     /\ fsOk' = s.fsOk
     /\ lastCall' = [op |-> "saveEvidence", type |-> t, null |-> FALSE,
                     thrown |-> s.thrown]
     /\ everSaved' = [everSaved EXCEPT ![t] = TRUE]
     /\ addLog' = Invalidate(addLog, t)
     /\ UNCHANGED <<secure, legacy, media, nextId, cfgWrite>>
     /\ UNCHANGED <<sessVars, setupVars, cryptoVars, calcVars>>

StAdd(item, p, t, salt, f, g) ==
  LET a == addEvidence(item, p, t, salt, f, g)
  IN /\ file' = a.file
     /\ fsOk' = a.fsOk
     /\ lastCall' = [op |-> "addEvidence", type |-> t,
                     null |-> loadEvidence(p, t, f).res.null, thrown |-> a.thrown]
     /\ everSaved' = [everSaved EXCEPT ![t] = @ \/ a.saved]
     /\ addLog' = IF a.thrown \/ ~addLog[t].valid THEN Invalidate(addLog, t)
                  ELSE [addLog EXCEPT ![t].adds = Append(@, item)]
     /\ nextId' = nextId + 1
     /\ UNCHANGED <<secure, legacy, media, cfgWrite>>
     /\ UNCHANGED <<sessVars, setupVars, cryptoVars, calcVars>>

StDelete(id, p, t, salt, f, g) ==
  LET d == deleteEvidence(id, p, t, salt, f, g)
  IN /\ file' = d.file
     /\ fsOk' = d.fsOk
     /\ lastCall' = [op |-> "deleteEvidence", type |-> t,
                     null |-> loadEvidence(p, t, f).res.null, thrown |-> d.thrown]
     /\ everSaved' = [everSaved EXCEPT ![t] = @ \/ d.saved]
     /\ addLog' = Invalidate(addLog, t)
     /\ UNCHANGED <<secure, legacy, media, nextId, cfgWrite>>
     /\ UNCHANGED <<sessVars, setupVars, cryptoVars, calcVars>>

StCorrupt(t, kind) ==
  /\ file[t].kind = "envelope"
  /\ file' = [file EXCEPT ![t] = CorruptBlob(@, kind)]
  /\ lastCall' = NoCall
  /\ addLog' = Invalidate(addLog, t)
  /\ UNCHANGED <<secure, legacy, fsOk, media, nextId, cfgWrite, everSaved>>
  /\ UNCHANGED <<sessVars, setupVars, cryptoVars, calcVars>>

StoreNext ==
  \/ \E p \in StorePins, t \in Types, f \in StoreFaults : StLoad(p, t, f)
  \/ \E p \in StorePins, t \in Types, salt \in Salts, f \in StoreFaults :
       \/ StSave(<<>>, p, t, salt, f)
       \/ CanCreate /\ \E item \in NewNotes : StAdd(item, p, t, salt, f, f)
       \/ \E id \in 1..nextId : StDelete(id, p, t, salt, f, f)
  \/ \E t \in Types, kind \in CorruptKinds : StCorrupt(t, kind)

SpecStore == StoreInit /\ [][StoreNext]_vars

\* ------------------------------------------------------ claims on SpecStore
\* The blob loadEvidence(p, t) reads when the directory is available.
BlobRead(t) == IF file[t].kind # "absent" THEN file[t] ELSE legacy[t]
Yields(b, p) == ~decrypt(b, p).null /\ JSONparse(decrypt(b, p).text).ok

\* C1: when the load inside addEvidence / deleteEvidence returns null, the
\* call leaves the vault's primary and legacy slots (and the indicator)
\* exactly as they were.
C1_FailedLoadLeavesBlob ==
  [][(lastCall'.op \in {"addEvidence", "deleteEvidence"} /\ lastCall'.null)
       => (file' = file /\ legacy' = legacy /\ fsOk' = fsOk)]_vars

\* An add was aborted on a failed load while both slots held items.
C1_Witness ==
  /\ lastCall.op = "addEvidence" /\ lastCall.null
  /\ file[lastCall.type].kind # "absent" /\ Persisted(lastCall.type) # <<>>

\* C2 as stated: null whenever the blob read does not yield a list, and an
\* empty list only when neither slot holds a blob.
C2_Original ==
  \A p \in StorePins, t \in Types, f \in StoreFaults :
    LET r == loadEvidence(p, t, f).res
    IN /\ (BlobRead(t).kind # "absent" /\ ~Yields(BlobRead(t), p)) => r.null
       /\ (r = ItemsResult(<<>>)) => (file[t].kind = "absent" /\ legacy[t].kind = "absent")

\* C2 amended: null whenever the blob read (the primary file, else the
\* legacy value) is present and does not decrypt under the PIN or decrypts
\* to malformed JSON; an empty list only when the blob read is absent or
\* decrypts to the JSON text of an empty array.
C2_NullNotEmpty ==
  \A p \in StorePins, t \in Types, f \in StoreFaults :
    LET r == loadEvidence(p, t, f).res
        b == BlobRead(t)
    IN /\ (b.kind # "absent" /\ ~Yields(b, p)) => r.null
       /\ (r = ItemsResult(<<>>)) =>
            (b.kind = "absent" \/ decrypt(b, p).text = JSONstringify(<<>>))

\* A load returned null on a slot holding a blob that does not decrypt.
C2_Witness ==
  /\ lastCall.op = "loadEvidence" /\ lastCall.null
  /\ file[lastCall.type].kind = "garbage"

\* C3 as stated: with no saveEvidence call and no legacy data, every load
\* returns the empty list.
C3_Original ==
  (lastCall.op = "loadEvidence" /\ ~everSaved[lastCall.type]
     /\ legacy[lastCall.type].kind = "absent")
    => ~lastCall.null

\* C3 amended: with no saveEvidence call for the vault and no legacy data,
\* a load whose directory is available and whose reads do not throw
\* returns the empty list.
C3_EmptyVaultLoads ==
  \A p \in StorePins, t \in Types, f \in {"none", "fswrite"} :
    (~everSaved[t] /\ legacy[t].kind = "absent")
      => loadEvidence(p, t, f).res = ItemsResult(<<>>)

\* A load succeeded before any save.
C3_Witness ==
  /\ lastCall.op = "loadEvidence" /\ ~lastCall.null
  /\ ~everSaved[lastCall.type] /\ legacy[lastCall.type].kind = "absent"
  /\ everSaved[Other(lastCall.type)]

\* C5: while only successful adds ran on a vault, its persisted list is the
\* added items newest first, followed by what the vault held before.
C5_ReverseInsertionOrder ==
  \A t \in Types :
    (addLog[t].valid /\ addLog[t].adds # <<>>) =>
      /\ file[t].kind = "envelope"
      /\ Persisted(t) = Reverse(addLog[t].adds) \o
           (IF Len(Persisted(t)) > Len(addLog[t].adds)
            THEN legacy[t].data.plain.items ELSE <<>>)

\* Two adds whose timestamps run against the insertion order.
C5_Witness ==
  \E t \in Types :
    /\ addLog[t].valid /\ Len(addLog[t].adds) = 2
    /\ addLog[t].adds[1].timestamp > addLog[t].adds[2].timestamp

\* C8: a saveEvidence, addEvidence or deleteEvidence call on one vault
\* leaves the other vault's primary file, legacy value and indicator, and
\* so what a load of the other vault returns, unchanged.
C8_VaultsDisjoint ==
  [][\A t \in Types :
       (lastCall'.op \in {"saveEvidence", "addEvidence", "deleteEvidence"}
          /\ lastCall'.type = t)
       => /\ file'[Other(t)] = file[Other(t)]
          /\ legacy'[Other(t)] = legacy[Other(t)]
          /\ fsOk'[Other(t)] = fsOk[Other(t)]]_vars

\* A call on one vault succeeded while the other vault held items.
C8_Witness ==
  /\ lastCall.op = "deleteEvidence" /\ ~lastCall.thrown /\ ~lastCall.null
  /\ file[lastCall.type].kind = "envelope" /\ Persisted(lastCall.type) = <<>>
  /\ file[Other(lastCall.type)].kind = "envelope"
  /\ Persisted(Other(lastCall.type)) # <<>>

\* ------------------------------------------------- SpecSetup: the PIN keypad
\* PINs are typed digit by digit; a full PIN schedules a callback 200 ms
\* later that runs with the state its handleKeyPress closed over. Callbacks
\* of equal delay run in the order they were scheduled.
Closure(newPin) ==
  [step |-> step, secretPin |-> secretPin, decoyPin |-> decoyPin, newPin |-> newPin]

setupFrame ==
  <<file, legacy, fsOk, media, nextId, lastCall, everSaved, addLog, currentPin,
    vaultType, evidence, tasks, alerts, locked, added, cryptoVars, calcVars>>

\* AppProvider.checkSetup, run once on mount.
checkSetup(f) ==
  /\ isLoading
  /\ isLoading' = FALSE
  /\ mode' = IF ~isAppSetup(f) THEN "setup" ELSE mode

\* handleKeyPress(key) for a digit key.
KeyPress(key) ==
  /\ mode = "setup"
  /\ Len(pin) < PIN_LENGTH => IsTyped(Append(pin, key))
  /\ error' = ""
  /\ LET newPin == Append(pin, key)
     IN IF Len(newPin) > PIN_LENGTH THEN UNCHANGED <<pin, timers>>
        ELSE /\ pin' = newPin
             /\ IF Len(newPin) = PIN_LENGTH
                THEN /\ Len(timers) < MaxTimers
                     /\ timers' = Append(timers, Closure(newPin))
                ELSE UNCHANGED timers
  /\ UNCHANGED <<step, secretPin, decoyPin, setupCalls>>
  /\ UNCHANGED <<secure, cfgWrite, mode, isLoading, setupFrame>>

\* handleKeyPress('delete').
KeyDelete ==
  /\ mode = "setup"
  /\ error' = ""
  /\ pin' = SubSeq(pin, 1, Len(pin) - 1)
  /\ UNCHANGED <<step, secretPin, decoyPin, timers, setupCalls>>
  /\ UNCHANGED <<secure, cfgWrite, mode, isLoading, setupFrame>>

\* setupPins(s, d): hash both PINs and start saveConfig.
SetupPinsCall(s, d) ==
  /\ cfgWrite.pc = 0
  /\ cfgWrite' = [pc |-> 1, secretPinHash |-> hashPin(s), decoyPinHash |-> hashPin(d)]
  /\ setupCalls' = setupCalls \cup {<<s, d>>}

\* The callback of the oldest pending timer.
TimerFire ==
  /\ timers # <<>>
  /\ timers' = Tail(timers)
  /\ LET c == Head(timers)
     IN CASE c.step = "secret" ->
               /\ secretPin' = c.newPin
               /\ pin' = <<>>
               /\ step' = "confirm_secret"
               /\ UNCHANGED <<decoyPin, error, setupCalls, cfgWrite>>
          [] c.step = "confirm_secret" ->
               IF c.newPin = c.secretPin
               THEN /\ pin' = <<>>
                    /\ step' = "decoy"
                    /\ UNCHANGED <<secretPin, decoyPin, error, setupCalls, cfgWrite>>
               ELSE /\ pin' = <<>>
                    /\ error' = "PINs do not match"
                    /\ step' = "secret"
                    /\ secretPin' = <<>>
                    /\ UNCHANGED <<decoyPin, setupCalls, cfgWrite>>
          [] c.step = "decoy" ->
               IF c.newPin = c.secretPin
               THEN /\ pin' = <<>>
                    /\ error' = "Must differ from secret PIN"
                    /\ UNCHANGED <<step, secretPin, decoyPin, setupCalls, cfgWrite>>
               ELSE /\ decoyPin' = c.newPin
                    /\ pin' = <<>>
                    /\ step' = "confirm_decoy"
                    /\ UNCHANGED <<secretPin, error, setupCalls, cfgWrite>>
          [] OTHER ->
               IF c.newPin = c.decoyPin
               THEN /\ SetupPinsCall(c.secretPin, c.newPin)
                    /\ UNCHANGED <<step, pin, secretPin, decoyPin, error>>
               ELSE /\ pin' = <<>>
                    /\ error' = "PINs do not match"
                    /\ step' = "decoy"
                    /\ decoyPin' = <<>>
                    /\ UNCHANGED <<secretPin, setupCalls, cfgWrite>>
  /\ UNCHANGED <<secure, mode, isLoading, setupFrame>>

\* The next SecureStore write of the saveConfig in progress; setupPins
\* switches to the calculator once the last one is done, and gives up
\* when one throws.
SetupWrite(f) ==
  /\ saveConfigWrite(f)
  /\ mode' = IF f # "secure" /\ cfgWrite.pc = 3 THEN "calculator" ELSE mode

SetupCheck ==
  checkSetup("none") /\ UNCHANGED <<secure, cfgWrite, setupVars, setupFrame>>

SetupStore ==
  SetupWrite("none") /\ UNCHANGED <<isLoading, setupVars, setupFrame>>

SetupInit ==
  /\ InitStorage
  /\ legacy = [t \in Types |-> Absent]
  /\ InitSession
  /\ InitSetup
  /\ InitCrypto
  /\ InitCalc

SetupNext ==
  \/ SetupCheck
  \/ \E key \in Digits : KeyPress(key)
  \/ KeyDelete
  \/ TimerFire
  \/ SetupStore

SpecSetup == SetupInit /\ [][SetupNext]_vars

\* ----------------------------------------------------- claims on SpecSetup
\* C7: no setupPins call is made with a decoy PIN equal to the secret PIN,
\* and the two stored hashes, once both written, differ.
C7_SetupRejectsDuplicate ==
  /\ \A c \in setupCalls : c[1] # c[2]
  /\ (secure.secretHash # NoHash /\ secure.decoyHash # NoHash)
       => secure.secretHash # secure.decoyHash

\* ------------------------------------------------------ Spec: the session
\* An async context function is a task: its call and the first storage
\* call it makes are one step, every later storage call another, and what
\* follows a storage call up to the next await runs with it. A task keeps
\* the currentPin and vaultType its closure captured at the call.
Task(op, pc, p, t, items, item) ==
  [op |-> op, pc |-> pc, pin |-> p, type |-> t, items |-> items, item |-> item]

TasksAt(op, pc) == {k \in tasks : k.op = op /\ k.pc = pc}
CanStart == Cardinality(tasks) < MaxTasks

\* The session is set up with the PINs 1234 (secret) and 0000 (decoy), or
\* with 1234 for both (setupPins compares nothing), tries 9999 as well, and
\* adds items of one timestamp.
SetupPairs == {<<"1234", "0000">>, <<"1234", "1234">>}
SessionItems == {i \in NewItems : i.timestamp = 1}
LoadFaults == {"none", "nodir"}
SaveFaults == {"none", "fswrite", "async"}
SecureFaults == {"none", "secure"}

sessionFrame ==
  <<legacy, everSaved, addLog, step, pin, secretPin, decoyPin, error, timers,
    cryptoVars, calcVars>>

SessionCall(op, t, null, thrown) ==
  [op |-> op, type |-> t, null |-> null, thrown |-> thrown]

\* if (!currentPin || !vaultType) return: the guard that opens
\* addNewEvidence, removeEvidence and refreshEvidence.
NoSession(p, t) == p = "" \/ t = "null"

\* Mutant: a failed load does not abort the add.
AddAborts_Never(r) == FALSE

\* addEvidence: if (items === null) throw.
AddAborts(r) == r.null

SessCheck(f) ==
  /\ checkSetup(f)
  /\ lastCall' = NoCall /\ alerts' = ""
  /\ UNCHANGED <<secure, cfgWrite, file, fsOk, media, nextId, currentPin, vaultType,
                 evidence, tasks, locked, added, setupCalls, sessionFrame>>

\* PinSetup calls setupPins(s, d).
setupPins(s, d) ==
  /\ mode = "setup"
  /\ SetupPinsCall(s, d)
  /\ lastCall' = NoCall /\ alerts' = ""
  /\ UNCHANGED <<secure, file, fsOk, media, nextId, mode, isLoading, currentPin,
                 vaultType, evidence, tasks, locked, added, sessionFrame>>

SessWrite(f) ==
  /\ SetupWrite(f)
  /\ lastCall' = NoCall /\ alerts' = ""
  /\ UNCHANGED <<file, fsOk, media, nextId, isLoading, currentPin, vaultType,
                 evidence, tasks, locked, added, setupCalls, sessionFrame>>

\* Mutant: the PIN tried is kept whatever verifyPin answered.
unlockSession_KeepsPin(result, p) ==
  [currentPin |-> p,
   vaultType |-> IF result \in Types THEN result ELSE vaultType,
   proceeds |-> result \in Types]

\* Mutant: every accepted PIN opens the secret vault.
unlockSession_SecretVault(result, p) ==
  IF result \in Types
  THEN [currentPin |-> p, vaultType |-> "secret", proceeds |-> TRUE]
  ELSE [currentPin |-> currentPin, vaultType |-> vaultType, proceeds |-> FALSE]

\* unlockVault: what the verifyPin result does to the session, and whether
\* the call goes on to load (otherwise it returns false).
unlockSession(result, p) ==
  IF result \in Types
  THEN [currentPin |-> p, vaultType |-> result, proceeds |-> TRUE]
  ELSE [currentPin |-> currentPin, vaultType |-> vaultType, proceeds |-> FALSE]

\* unlockVault(p) up to its loadEvidence: verifyPin, setCurrentPin,
\* setVaultType.
UnlockVerify(p, f) ==
  /\ mode = "calculator" /\ ~isLoading /\ CanStart
  /\ LET result == verifyPin(p, f)
         u == unlockSession(result, p)
     IN /\ lastCall' = SessionCall("verifyPin", result, FALSE, FALSE)
        /\ currentPin' = u.currentPin
        /\ vaultType' = u.vaultType
        /\ IF u.proceeds
           THEN /\ locked' = FALSE
                /\ tasks' = tasks \cup {Task("unlock", 2, p, result, <<>>, NoItem)}
           ELSE UNCHANGED <<locked, tasks>>
  /\ alerts' = ""
  /\ UNCHANGED <<secure, cfgWrite, file, fsOk, media, nextId, mode, isLoading,
                 evidence, added, setupCalls, sessionFrame>>

\* unlockVault from its loadEvidence on: setEvidence(items || []),
\* setMode('vault').
UnlockLoad(k, f) ==
  /\ k \in TasksAt("unlock", 2)
  /\ LET r == loadEvidence(k.pin, k.type, f).res
     IN /\ evidence' = r.items
        /\ lastCall' = SessionCall("unlockVault", k.type, r.null, FALSE)
  /\ mode' = "vault"
  /\ locked' = FALSE
  /\ tasks' = tasks \ {k}
  /\ alerts' = ""
  /\ UNCHANGED <<secure, cfgWrite, file, fsOk, media, nextId, isLoading, currentPin,
                 vaultType, added, setupCalls, sessionFrame>>

\* lockVault, from the vault's lock button or the shake listener.
lockVault ==
  /\ mode = "vault"
  /\ mode' = "calculator"
  /\ currentPin' = ""
  /\ evidence' = <<>>
  /\ vaultType' = "null"
  /\ locked' = TRUE
  /\ lastCall' = NoCall /\ alerts' = ""
  /\ UNCHANGED <<secure, cfgWrite, file, fsOk, media, nextId, isLoading, tasks,
                 added, setupCalls, sessionFrame>>

\* An add handler of the vault screen (handleTakePhoto, handleRecordVideo,
\* handleAudioSaved, handleAddNote) starts: it holds the addNewEvidence of
\* the render it was made in, hence that render's currentPin and
\* vaultType, and awaits the picker and the metadata before it calls it.
handleAdd ==
  /\ mode = "vault" /\ CanStart
  /\ nextId + Cardinality(TasksAt("add", 1)) < MaxAdds
  /\ tasks' = tasks \cup {Task("add", 1, currentPin, vaultType, <<>>, NoItem)}
  /\ lastCall' = NoCall /\ alerts' = ""
  /\ UNCHANGED <<secure, cfgWrite, file, fsOk, media, nextId, mode, isLoading,
                 currentPin, vaultType, evidence, locked, added, setupCalls,
                 sessionFrame>>

\* The handler's addNewEvidence(item) up to the loadEvidence inside
\* addEvidence. A photo's media file was written by the handler before the
\* call.
AddStart(k, item, f) ==
  /\ k \in TasksAt("add", 1) /\ CanCreate
  /\ nextId' = nextId + 1
  /\ media' = IF item.type = "photo" THEN media \cup {item.id} ELSE media
  /\ IF NoSession(k.pin, k.type)
     THEN /\ lastCall' = SessionCall("addNewEvidence", "null", FALSE, FALSE)
          /\ alerts' = ""
          /\ tasks' = tasks \ {k}
     ELSE LET r == loadEvidence(k.pin, k.type, f).res
          IN /\ lastCall' = SessionCall("addEvidence", k.type, r.null, AddAborts(r))
             /\ IF AddAborts(r)
                THEN /\ alerts' = "Save Failed"
                     /\ tasks' = tasks \ {k}
                ELSE /\ alerts' = ""
                     /\ tasks' = (tasks \ {k}) \cup
                          {Task("add", 2, k.pin, k.type, unshift(r.items, item), item)}
  /\ UNCHANGED <<secure, cfgWrite, file, fsOk, mode, isLoading, currentPin, vaultType,
                 evidence, locked, added, setupCalls, sessionFrame>>

\* The saveEvidence inside addEvidence.
AddSave(k, salt, g) ==
  /\ k \in TasksAt("add", 2)
  /\ LET sv == saveEvidence(k.items, k.pin, k.type, salt, g, file, fsOk)
     IN /\ file' = sv.file
        /\ fsOk' = sv.fsOk
        /\ lastCall' = SessionCall("saveEvidence", k.type, FALSE, sv.thrown)
        /\ IF sv.thrown
           THEN /\ alerts' = "Save Failed"
                /\ tasks' = tasks \ {k}
                /\ UNCHANGED added
           ELSE /\ alerts' = ""
                /\ tasks' = (tasks \ {k}) \cup {[k EXCEPT !.pc = 3]}
                /\ added' = [added EXCEPT ![k.type] = @ \cup {k.item.id}]
  /\ UNCHANGED <<secure, cfgWrite, media, nextId, mode, isLoading, currentPin,
                 vaultType, evidence, locked, setupCalls, sessionFrame>>

\* The reload that ends addNewEvidence.
AddReload(k, f) ==
  /\ k \in TasksAt("add", 3)
  /\ LET r == loadEvidence(k.pin, k.type, f).res
     IN /\ lastCall' = SessionCall("loadEvidence", k.type, r.null, FALSE)
        /\ IF r.null
           THEN /\ alerts' = "Error"
                /\ UNCHANGED evidence
           ELSE /\ alerts' = ""
                /\ evidence' = r.items
  /\ tasks' = tasks \ {k}
  /\ UNCHANGED <<secure, cfgWrite, file, fsOk, media, nextId, mode, isLoading,
                 currentPin, vaultType, locked, added, setupCalls, sessionFrame>>

\* deleteMedia(uri) for the media file of item id: nothing is deleted when
\* the vault directory is not available (getAbsoluteUri returns null).
deleteMedia(id, f) == IF f = "nodir" THEN media ELSE media \ {id}

\* removeEvidence(id) up to the loadEvidence inside deleteEvidence: the
\* item's media file is deleted first.
RemoveStart(i, f) ==
  /\ mode = "vault" /\ CanStart
  /\ i \in DOMAIN evidence
  /\ IF NoSession(currentPin, vaultType)
     THEN /\ lastCall' = SessionCall("removeEvidence", "null", FALSE, FALSE)
          /\ UNCHANGED <<media, added, tasks>>
     ELSE LET item == evidence[i]
              r == loadEvidence(currentPin, vaultType, f).res
          IN /\ media' = IF item.type = "photo" THEN deleteMedia(item.id, f) ELSE media
             /\ lastCall' = SessionCall("deleteEvidence", vaultType, r.null, FALSE)
             /\ added' = [added EXCEPT ![vaultType] = @ \ {item.id}]
             /\ tasks' = tasks \cup
                  {Task("remove", IF r.null THEN 3 ELSE 2, currentPin, vaultType,
                        filterOut(r.items, item.id), item)}
  /\ alerts' = ""
  /\ UNCHANGED <<secure, cfgWrite, file, fsOk, nextId, mode, isLoading, currentPin,
                 vaultType, evidence, locked, setupCalls, sessionFrame>>

\* The saveEvidence inside deleteEvidence; removeEvidence does not catch
\* what it throws.
RemoveSave(k, salt, g) ==
  /\ k \in TasksAt("remove", 2)
  /\ LET sv == saveEvidence(k.items, k.pin, k.type, salt, g, file, fsOk)
     IN /\ file' = sv.file
        /\ fsOk' = sv.fsOk
        /\ lastCall' = SessionCall("saveEvidence", k.type, FALSE, sv.thrown)
        /\ tasks' = IF sv.thrown THEN tasks \ {k}
                    ELSE (tasks \ {k}) \cup {[k EXCEPT !.pc = 3]}
  /\ alerts' = ""
  /\ UNCHANGED <<secure, cfgWrite, media, nextId, mode, isLoading, currentPin,
                 vaultType, evidence, locked, added, setupCalls, sessionFrame>>

\* The reload that ends removeEvidence: setEvidence(items || []).
RemoveReload(k, f) ==
  /\ k \in TasksAt("remove", 3)
  /\ LET r == loadEvidence(k.pin, k.type, f).res
     IN /\ evidence' = r.items
        /\ lastCall' = SessionCall("removeEvidence", k.type, r.null, FALSE)
  /\ tasks' = tasks \ {k}
  /\ alerts' = ""
  /\ UNCHANGED <<secure, cfgWrite, file, fsOk, media, nextId, mode, isLoading,
                 currentPin, vaultType, locked, added, setupCalls, sessionFrame>>

\* Mutant: refreshEvidence without its guard; with no vault to read, the
\* list is set to [].
refreshEvidence_Unguarded(f) ==
  /\ mode = "vault"
  /\ IF NoSession(currentPin, vaultType)
     THEN /\ lastCall' = SessionCall("refreshEvidence", "null", FALSE, FALSE)
          /\ evidence' = <<>>
     ELSE LET r == loadEvidence(currentPin, vaultType, f).res
          IN /\ evidence' = r.items
             /\ lastCall' = SessionCall("refreshEvidence", vaultType, r.null, FALSE)
  /\ alerts' = ""
  /\ UNCHANGED <<secure, cfgWrite, file, fsOk, media, nextId, mode, isLoading,
                 currentPin, vaultType, tasks, locked, added, setupCalls, sessionFrame>>

\* refreshEvidence(): setEvidence(items || []).
refreshEvidence(f) ==
  /\ mode = "vault"
  /\ IF NoSession(currentPin, vaultType)
     THEN /\ lastCall' = SessionCall("refreshEvidence", "null", FALSE, FALSE)
          /\ UNCHANGED evidence
     ELSE LET r == loadEvidence(currentPin, vaultType, f).res
          IN /\ evidence' = r.items
             /\ lastCall' = SessionCall("refreshEvidence", vaultType, r.null, FALSE)
  /\ alerts' = ""
  /\ UNCHANGED <<secure, cfgWrite, file, fsOk, media, nextId, mode, isLoading,
                 currentPin, vaultType, tasks, locked, added, setupCalls, sessionFrame>>

Init ==
  /\ InitStorage
  /\ legacy = [t \in Types |-> Absent]
  /\ InitSession
  /\ InitSetup
  /\ InitCrypto
  /\ InitCalc

Next ==
  \/ \E f \in SecureFaults : SessCheck(f)
  \/ \E c \in SetupPairs : setupPins(c[1], c[2])
  \/ \E f \in SecureFaults : SessWrite(f)
  \/ \E p \in Pins, f \in SecureFaults : UnlockVerify(p, f)
  \/ \E k \in tasks, f \in LoadFaults : UnlockLoad(k, f)
  \/ lockVault
  \/ handleAdd
  \/ \E k \in tasks, item \in SessionItems, f \in LoadFaults : AddStart(k, item, f)
  \/ \E k \in tasks, salt \in Salts, g \in SaveFaults : AddSave(k, salt, g)
  \/ \E k \in tasks, f \in LoadFaults : AddReload(k, f)
  \/ \E i \in 1..MaxAdds, f \in LoadFaults : RemoveStart(i, f)
  \/ \E k \in tasks, salt \in Salts, g \in SaveFaults : RemoveSave(k, salt, g)
  \/ \E k \in tasks, f \in LoadFaults : RemoveReload(k, f)
  \/ \E f \in LoadFaults : refreshEvidence(f)

Spec == Init /\ [][Next]_vars

\* ---------------------------------------------------------- claims on Spec
\* C4: when the load inside an add returns null, addEvidence throws,
\* addNewEvidence raises the 'Save Failed' alert, and the evidence list,
\* the vault's slots and the other calls in flight are as before and the
\* handler's call has ended: nothing is saved in place of the failed load.
C4_FailedAddAborts ==
  [][(lastCall'.op = "addEvidence" /\ lastCall'.null)
       => /\ lastCall'.thrown
          /\ alerts' = "Save Failed"
          /\ evidence' = evidence
          /\ file' = file /\ fsOk' = fsOk
          /\ tasks' \subseteq tasks]_vars

\* An add was aborted while the vault held items, on disk and in memory.
C4_Witness ==
  /\ lastCall.op = "addEvidence" /\ lastCall.null
  /\ alerts = "Save Failed"
  /\ evidence # <<>> /\ Persisted(lastCall.type) # <<>>

\* C6 as stated: whatever the call meets, verifyPin is the reference
\* function of the stored configuration.
C6_Original ==
  \A p \in Pins, f \in SecureFaults :
    verifyPin(p, f) =
      (IF secure.isSetup # "true" THEN "invalid"
       ELSE IF hashPin(p) = secure.secretHash THEN "secret"
       ELSE IF hashPin(p) = secure.decoyHash THEN "decoy"
       ELSE "invalid")

\* C6 amended: when its SecureStore reads succeed verifyPin is the
\* reference function (after setup with 1234 and 0000: secret, decoy, and
\* invalid for 9999), and when they throw it is 'invalid' for every PIN.
C6_VerifyPinReference ==
  /\ \A p \in Pins :
       /\ verifyPin(p, "none") =
            (IF secure.isSetup # "true" THEN "invalid"
             ELSE IF hashPin(p) = secure.secretHash THEN "secret"
             ELSE IF hashPin(p) = secure.decoyHash THEN "decoy"
             ELSE "invalid")
       /\ verifyPin(p, "secure") = "invalid"
  /\ (secure = [secretHash |-> hashPin("1234"), decoyHash |-> hashPin("0000"),
                isSetup |-> "true"])
       => /\ verifyPin("1234", "none") = "secret"
          /\ verifyPin("0000", "none") = "decoy"
          /\ verifyPin("9999", "none") = "invalid"

\* verifyPin answered 'secret' for a PIN that matches both stored hashes.
C6_Witness ==
  /\ lastCall.op = "verifyPin" /\ lastCall.type = "secret"
  /\ secure.isSetup = "true" /\ secure.secretHash = secure.decoyHash

\* C9: every unlockVault that finishes shows the list persisted for its
\* vault, and that list holds every item whose addEvidence returned (and
\* that was not removed since).
C9_PersistsAcrossLock ==
  [][lastCall'.op = "unlockVault"
       => /\ mode' = "vault"
          /\ evidence' = file'[lastCall'.type].data.plain.items
          /\ \A id \in added[lastCall'.type] :
               \E i \in DOMAIN evidence' : evidence'[i].id = id]_vars

\* C10: from lockVault until an unlockVault verifies a PIN, the evidence
\* list is empty, currentPin is '' and vaultType is null.
C10_LockDiscardsState ==
  locked => (evidence = <<>> /\ currentPin = "" /\ vaultType = "null")

\* C11: when the load made by unlockVault, by removeEvidence after its
\* delete, or by refreshEvidence returns null, the call raises an alert and
\* the vault screen is not left showing an empty list.
C11_LoadFailureSurfaced ==
  [][(lastCall'.op \in {"unlockVault", "removeEvidence", "refreshEvidence"}
        /\ lastCall'.null)
       => /\ alerts' # ""
          /\ ~(mode' = "vault" /\ evidence' = <<>>)]_vars

\* C12: a saveEvidence call either returns normally with the vault's file
\* replaced by an envelope and its fs_ok indicator set, or throws with
\* every file as it was before the call.
C12_SaveAtomic ==
  [][lastCall'.op = "saveEvidence"
       => IF lastCall'.thrown
          THEN file' = file
          ELSE /\ file'[lastCall'.type].kind = "envelope"
               /\ fsOk'[lastCall'.type]]_vars

\* C13: when a vault's file is absent and its legacy slot holds an envelope
\* that decrypts under the PIN to an item list, loadEvidence returns those
\* items and writes that envelope to the vault's file; when the migration
\* write fails it returns the same items and leaves the files as they were.
C13_LegacyMigration ==
  \A p \in StorePins, t \in Types :
    (file[t].kind = "absent" /\ legacy[t].kind = "envelope" /\ Yields(legacy[t], p))
      => LET items == JSONparse(decrypt(legacy[t], p).text).val
         IN /\ loadEvidence(p, t, "none").res = ItemsResult(items)
            /\ FileAfterLoad(p, t, "none", file) = [file EXCEPT ![t] = legacy[t]]
            /\ loadEvidence(p, t, "fswrite").res = ItemsResult(items)
            /\ FileAfterLoad(p, t, "fswrite", file) = file

\* A load has returned the legacy items of a vault that was never saved to,
\* and the vault's file now holds the legacy envelope.
C13_Witness ==
  /\ lastCall.op = "loadEvidence" /\ lastCall.type = "secret" /\ ~lastCall.null
  /\ ~everSaved["secret"]
  /\ legacy["secret"].kind = "envelope"
  /\ file["secret"] = legacy["secret"]
  /\ Persisted("secret") = <<LegacyItem>>

\* C14: for each vault at most one addEvidence or deleteEvidence call is
\* between its loadEvidence and its saveEvidence.
C14_OneMutationInFlight ==
  \A t \in Types :
    Cardinality({k \in tasks : k.op \in {"add", "remove"} /\ k.pc = 2 /\ k.type = t}) <= 1

C16_AttemptsLeaveNoTrace ==
  [][/\ lastCall'.op = "verifyPin"
          => UNCHANGED <<secure, cfgWrite, file, legacy, fsOk, media>>
     /\ (lastCall'.op = "verifyPin" /\ lastCall'.type = "invalid")
          => /\ UNCHANGED <<mode, isLoading, currentPin, vaultType, evidence, tasks>>
             /\ \A p \in Pins, f \in SecureFaults :
                  verifyPin(p, f)' = verifyPin(p, f)
     /\ secure.isSetup = "true"
          => /\ verifyPin("1234", "none") = "secret"
             /\ secure.decoyHash = hashPin("0000") => verifyPin("0000", "none") = "decoy"]_vars

\* After an attempt answered 'invalid', the secret and the decoy PIN are
\* still accepted.
C16_Witness ==
  /\ lastCall.op = "verifyPin" /\ lastCall.type = "invalid"
  /\ verifyPin("1234", "none") = "secret"
  /\ verifyPin("0000", "none") = "decoy"

\* C17: an addNewEvidence, removeEvidence or refreshEvidence call that
\* begins while currentPin is empty or vaultType is null starts no storage
\* call, writes no file, deletes no media, raises no alert and leaves the
\* session state as it was.
C17_NoSessionNoEffect ==
  [][(/\ NoSession(currentPin, vaultType)
      /\ \/ lastCall'.op \in {"addNewEvidence", "addEvidence", "deleteEvidence",
                              "refreshEvidence"}
         \/ lastCall'.op = "removeEvidence" /\ lastCall'.type = "null")
       => /\ lastCall'.type = "null"
          /\ UNCHANGED <<secure, file, legacy, fsOk, added>>
          /\ UNCHANGED <<mode, currentPin, vaultType, evidence>>
          /\ tasks' \subseteq tasks
          /\ media \subseteq media'
          /\ alerts' = ""]_vars

\* ---------------------------------------------------------------- SpecCrypto
\* encrypt and decrypt on their own. The plaintexts are the empty string,
\* the JSON texts of an empty and of a one-item list, and a text that is
\* not JSON; a draw is everything random in one encrypt call (the salt of
\* generateSalt and the salt CryptoJS.AES.encrypt adds to its output),
\* taken from a set that holds draws of both wrong-key outcomes.
MaxCalls == 2
Plaintexts == {EmptyText, JSONstringify(<<>>), JSONstringify(<<LegacyItem>>), MalformedText}
Draws == 1..(NumSalts + 1)
MalformedPayloads == {Garbage, EmptyFile}

cryptoFrame == <<storeVars, histVars, sessVars, setupVars, calcVars>>

\* Mutant: generateSalt returns one fixed salt and AES adds none.
generateSalt_Fixed(draw) == 1

\* generateSalt(): the salt the call's draw gives.
generateSalt(draw) == draw

\* encrypt(plaintext, encPin) with the given draw.
Encrypt(draw) ==
  /\ Len(envelopes) < MaxCalls
  /\ envelopes' = <<encrypt(plaintext, encPin, generateSalt(draw))>> \o envelopes
  /\ draws' = <<draw>> \o draws
  /\ UNCHANGED <<plaintext, encPin, attempt, cryptoFrame>>

\* decrypt(payload, p) of an envelope encrypt returned or of a string that
\* is no envelope.
Decrypt(payload, p) ==
  /\ attempt' = [called |-> TRUE, pin |-> p, payload |-> payload,
                 null |-> decrypt(payload, p).null, text |-> decrypt(payload, p).text]
  /\ UNCHANGED <<plaintext, encPin, envelopes, draws, cryptoFrame>>

CryptoInit ==
  /\ InitStorage
  /\ legacy = [t \in Types |-> Absent]
  /\ InitSession
  /\ InitSetup
  /\ InitCalc
  /\ plaintext \in Plaintexts
  /\ encPin \in Pins
  /\ envelopes = <<>>
  /\ draws = <<>>
  /\ attempt = NoAttempt

CryptoNext ==
  \/ \E draw \in Draws : Encrypt(draw)
  \/ \E i \in DOMAIN envelopes, p \in Pins : Decrypt(envelopes[i], p)
  \/ \E payload \in MalformedPayloads, p \in Pins : Decrypt(payload, p)

SpecCrypto == CryptoInit /\ [][CryptoNext]_vars

C19_WrongKeyNull ==
  attempt.called
    => /\ (attempt.payload.kind = "envelope" /\ attempt.pin # encPin) => attempt.null
       /\ attempt.payload.kind # "envelope" => attempt.null

DeleteIds == 0..(MaxAdds + 1)

\* The slot of vault t holds exactly the list items, readable under p.
Holds(fl, t, p, items) ==
  /\ fl[t].kind = "envelope"
  /\ ~decrypt(fl[t], p).null
  /\ decrypt(fl[t], p).text = JSONstringify(items)

\* C21 as stated: after every deleteEvidence whose load succeeded, the slot
\* holds the loaded list without the items of the given id.
C21_Original ==
  \A id \in DeleteIds, p \in StorePins, t \in Types, salt \in Salts,
     f \in StoreFaults, g \in StoreFaults :
    LET l == loadEvidence(p, t, f).res
        d == deleteEvidence(id, p, t, salt, f, g)
    IN (~l.null /\ l.array)
         => Holds(d.file, t, p, SelectSeq(l.items, LAMBDA i : i.id # id))

\* C21 amended: after a deleteEvidence whose load succeeded and whose file
\* write succeeded, the slot holds the loaded list without the items of the
\* given id, the others unchanged and in the same order (the whole list
\* when no item has the id); when the file cannot be written the call
\* throws and the slot is as the load left it.
C21_DeleteFilters ==
  \A id \in DeleteIds, p \in StorePins, t \in Types, salt \in Salts,
     f \in StoreFaults, g \in StoreFaults :
    LET l == loadEvidence(p, t, f).res
        d == deleteEvidence(id, p, t, salt, f, g)
    IN (~l.null /\ l.array)
         => /\ (\A i \in DOMAIN l.items : l.items[i].id # id)
                 => filterOut(l.items, id) = l.items
            /\ IF g \in {"nodir", "fswrite"}
               THEN d.thrown /\ d.file = FileAfterLoad(p, t, f, file)
               ELSE Holds(d.file, t, p, SelectSeq(l.items, LAMBDA i : i.id # id))

\* A deleteEvidence call has returned and the secret vault, which held the
\* legacy item and an added one, holds the added one only.
C21_Witness ==
  /\ lastCall.op = "deleteEvidence" /\ lastCall.type = "secret"
  /\ ~lastCall.null /\ ~lastCall.thrown
  /\ file["secret"].kind = "envelope"
  /\ Len(Persisted("secret")) = 1
  /\ Persisted("secret")[1].id = 1

\* ----------------------------------------------------- further claims on Spec
\* C22: every item whose addEvidence returned without error is in its
\* vault's persisted list until a removeEvidence call with its id begins.
C22_NoLostUpdate ==
  \A t \in Types : \A id \in added[t] :
    /\ file[t].kind = "envelope"
    /\ \E i \in DOMAIN Persisted(t) : Persisted(t)[i].id = id

\* The ids of the items the slot of vault t holds.
PersistedIds(t) ==
  IF file[t].kind = "envelope"
  THEN {Persisted(t)[i].id : i \in DOMAIN Persisted(t)}
  ELSE {}

\* C23: while a vault is the unlocked one, the evidence list in memory
\* holds no item that is persisted in the other vault only.
C23_SessionIsolation ==
  \A v \in Types :
    vaultType = v
      => \A i \in DOMAIN evidence :
           evidence[i].id \in PersistedIds(Other(v)) => evidence[i].id \in PersistedIds(v)

\* C24: after a removeEvidence call in which deleteEvidence aborted on a
\* failed load, or in which saveEvidence threw, every photo record the
\* vault persists has its media file.
C24_MediaOutlivesRecord ==
  [][(\/ lastCall'.op = "deleteEvidence" /\ lastCall'.null
      \/ /\ lastCall'.op = "saveEvidence" /\ lastCall'.thrown
         /\ \E k \in tasks \ tasks' : k.op = "remove")
       => (file'[lastCall'.type].kind = "envelope"
             => \A i \in DOMAIN file'[lastCall'.type].data.plain.items :
                  LET item == file'[lastCall'.type].data.plain.items[i]
                  IN item.type = "photo" => item.id \in media')]_vars

\* C25: currentPin and vaultType are set and cleared together, and a PIN
\* held by the session or by a call in flight is one verifyPin accepts for
\* the vault held with it; so every envelope in a vault's file decrypts to
\* an item list under a PIN that verifyPin accepts for that vault.
C25_WrittenUnderVaultPin ==
  /\ currentPin = "" <=> vaultType = "null"
  /\ currentPin # "" => verifyPin(currentPin, "none") = vaultType
  /\ \A k \in tasks :
       /\ k.pin = "" <=> k.type = "null"
       /\ k.pin # "" => verifyPin(k.pin, "none") = k.type
  /\ \A v \in Types :
       file[v].kind = "envelope"
         => \E p \in Pins :
              /\ verifyPin(p, "none") = v
              /\ file[v].data.key = deriveKey(p, file[v].salt)
              /\ ~loadEvidence(p, v, "none").res.null

\* saveEvidence has just written a non-empty list to the decoy vault.
C25_Witness ==
  /\ lastCall.op = "saveEvidence" /\ lastCall.type = "decoy" /\ ~lastCall.thrown
  /\ file["decoy"].kind = "envelope"
  /\ Persisted("decoy") # <<>>
  /\ verifyPin("0000", "none") = "decoy"

\* C26: whatever the slots hold and whatever fault the call meets,
\* loadEvidence returns an item list or null.
C26_LoadNullOnEveryFailure ==
  \A p \in StorePins, t \in Types, f \in StoreFaults :
    LET r == loadEvidence(p, t, f).res
    IN r.null \/ r.array

\* C27: in every state of a setup, between any two SecureStore writes of
\* saveConfig and after a write that threw, isAppSetup() answering true
\* implies that a secret hash and a decoy hash are stored.
C27_FlagWrittenLast ==
  isAppSetup("none") => (secure.secretHash # NoHash /\ secure.decoyHash # NoHash)

\* The flag is set by a second setupPins call, after the saveConfig of a
\* first one was cut short by a SecureStore error.
C27_Witness ==
  /\ isAppSetup("none") /\ cfgWrite = NoConfig
  /\ Cardinality(setupCalls) = 2

\* -------------------------------------------------- further claims on SpecSetup
\* C28: whatever the order of key presses, deletes and deferred step
\* callbacks, every setupPins call made by the setup screen is given a
\* secret PIN and a decoy PIN of PIN_LENGTH digits each that differ, at the
\* step that confirms the decoy PIN.
C28_SetupPinsArguments ==
  [][\A c \in setupCalls' \ setupCalls :
        /\ Len(c[1]) = PIN_LENGTH /\ Len(c[2]) = PIN_LENGTH
        /\ c[1] # c[2]]_vars

\* -------------------------------------------------- SpecCalc: the calculator
\* The Calculator screen of an app set up with two PINs. The digits 1 and 2
\* and the operators + and - are pressed (no decimal point, no product
\* or division: every value is an integer), so the display is a sequence
\* of digit characters after an optional minus sign. A handleEquals call whose buffer has PIN_LENGTH characters
\* or more waits for unlockVault: the press is one step, what follows the
\* await another, and keys can be handled in between.
MaxPresses == 7

CalcKeys == {"1", "2"}
CalcOps == {"+", "-"}
SecretKeys == <<"1", "1", "1", "1">>
DecoyKeys == <<"1", "1", "1", "2">>

DigitChars == <<"0", "1", "2", "3", "4", "5", "6", "7", "8", "9">>
DigitOf(c) == (CHOOSE i \in DOMAIN DigitChars : DigitChars[i] = c) - 1

\* parseFloat(display) of a digit string with an optional sign.
RECURSIVE parseFloat(_)
parseFloat(d) ==
  IF d = <<>> THEN 0
  ELSE IF Head(d) = "-" THEN 0 - parseFloat(Tail(d))
  ELSE 10 * parseFloat(SubSeq(d, 1, Len(d) - 1)) + DigitOf(d[Len(d)])

\* String(result) of an integer.
RECURSIVE String(_)
String(n) ==
  IF n < 0 THEN <<"-">> \o String(0 - n)
  ELSE IF n < 10 THEN <<DigitChars[n + 1]>>
  ELSE String(n \div 10) \o <<DigitChars[(n % 10) + 1]>>

\* result.toExponential(6), for results of more than 12 characters.
toExponential(n) == <<"exp", n>>

calculate(a, op, b) ==
  CASE op = "+" -> a + b
    [] op = "-" -> a - b
    [] op = "*" -> a * b
    [] OTHER -> b

\* handleNumber on the display and the reset flag of calculator state c.
numberKey(c, num) ==
  IF c.shouldResetDisplay
  THEN [c EXCEPT !.display = IF num = "." THEN <<"0", ".">> ELSE <<num>>,
                 !.shouldResetDisplay = FALSE]
  ELSE IF num = "." /\ \E i \in DOMAIN c.display : c.display[i] = "." THEN c
  ELSE IF c.display = <<"0">> /\ num # "." THEN [c EXCEPT !.display = <<num>>]
  ELSE [c EXCEPT !.display = Append(c.display, num)]

\* handleOperator on calculator state c.
operatorKey(c, op) ==
  LET currentValue == parseFloat(c.display)
      result == calculate(c.previousValue[1], c.operation, currentValue)
      chained == c.previousValue # <<>> /\ c.operation # "null" /\ ~c.shouldResetDisplay
  IN [display |-> IF chained THEN String(result) ELSE c.display,
      previousValue |-> IF chained THEN <<result>> ELSE <<currentValue>>,
      operation |-> op,
      shouldResetDisplay |-> TRUE]

\* The arithmetic of handleEquals: it computes from the values cl of the
\* render in which '=' was pressed and writes into calculator state c.
arithmeticEquals(cl, c) ==
  IF cl.previousValue # <<>> /\ cl.operation # "null"
  THEN LET result == calculate(cl.previousValue[1], cl.operation, parseFloat(cl.display))
           resultStr == String(result)
       IN CalcState(IF Len(resultStr) > 12 THEN toExponential(result) ELSE resultStr,
                    <<>>, "null", TRUE)
  ELSE c

Shown == CalcState(display, previousValue, operation, shouldResetDisplay)

SetShown(c) ==
  /\ display' = c.display
  /\ previousValue' = c.previousValue
  /\ operation' = c.operation
  /\ shouldResetDisplay' = c.shouldResetDisplay

calcFrame ==
  <<secure, file, legacy, fsOk, media, nextId, cfgWrite, everSaved, addLog,
    isLoading, tasks, alerts, added, setupVars, cryptoVars>>

handleNumber(num) ==
  /\ mode = "calculator" /\ presses < MaxPresses
  /\ presses' = presses + 1
  /\ pinBuffer' = Append(pinBuffer, num)
  /\ pinTimeout' = TRUE
  /\ SetShown(numberKey(Shown, num))
  /\ plain' = numberKey(plain, num)
  /\ UNCHANGED <<equalsTasks, unlockTries, mode, currentPin, vaultType, evidence,
                 locked, lastCall, calcFrame>>

handleOperator(op) ==
  /\ mode = "calculator" /\ presses < MaxPresses
  /\ presses' = presses + 1
  /\ SetShown(operatorKey(Shown, op))
  /\ plain' = operatorKey(plain, op)
  /\ UNCHANGED <<pinBuffer, pinTimeout, equalsTasks, unlockTries, mode, currentPin,
                 vaultType, evidence, locked, lastCall, calcFrame>>

\* handleEquals up to its await: the buffer is taken and cleared; with
\* fewer than PIN_LENGTH characters the arithmetic follows at once.
handleEquals ==
  /\ mode = "calculator" /\ presses < MaxPresses
  /\ presses' = presses + 1
  /\ pinBuffer' = <<>>
  /\ IF Len(pinBuffer) >= PIN_LENGTH
     THEN /\ equalsTasks' = equalsTasks \cup {[currentPinBuffer |-> pinBuffer, shown |-> Shown]}
          /\ unlockTries' = unlockTries \cup {pinBuffer}
          /\ UNCHANGED <<display, previousValue, operation, shouldResetDisplay>>
     ELSE /\ SetShown(arithmeticEquals(Shown, Shown))
          /\ UNCHANGED <<equalsTasks, unlockTries>>
  /\ plain' = arithmeticEquals(plain, plain)
  /\ UNCHANGED <<pinTimeout, mode, currentPin, vaultType, evidence, locked, lastCall,
                 calcFrame>>

\* handleEquals from the return of unlockVault(currentPinBuffer) on.
EqualsResume(k, f) ==
  /\ k \in equalsTasks
  /\ equalsTasks' = equalsTasks \ {k}
  /\ LET result == verifyPin(k.currentPinBuffer, f)
         u == unlockSession(result, k.currentPinBuffer)
     IN /\ lastCall' = SessionCall("verifyPin", result, FALSE, FALSE)
        /\ currentPin' = u.currentPin
        /\ vaultType' = u.vaultType
        /\ IF u.proceeds
           THEN /\ evidence' = loadEvidence(k.currentPinBuffer, result, "none").res.items
                /\ mode' = "vault"
                /\ locked' = FALSE
                /\ display' = <<"0">>
                /\ previousValue' = <<>>
                /\ operation' = "null"
                /\ UNCHANGED shouldResetDisplay
           ELSE /\ SetShown(arithmeticEquals(k.shown, Shown))
                /\ UNCHANGED <<evidence, mode, locked>>
  /\ UNCHANGED <<pinBuffer, pinTimeout, plain, unlockTries, presses, calcFrame>>

handleClear ==
  /\ mode = "calculator" /\ presses < MaxPresses
  /\ presses' = presses + 1
  /\ SetShown(CalcState(<<"0">>, <<>>, "null", FALSE))
  /\ pinBuffer' = <<>>
  /\ plain' = CalcState(<<"0">>, <<>>, "null", FALSE)
  /\ UNCHANGED <<pinTimeout, equalsTasks, unlockTries, mode, currentPin, vaultType,
                 evidence, locked, lastCall, calcFrame>>

\* The callback of the 5000 ms timer handleNumber arms.
pinTimeoutFire ==
  /\ pinTimeout
  /\ pinTimeout' = FALSE
  /\ pinBuffer' = <<>>
  /\ UNCHANGED <<display, previousValue, operation, shouldResetDisplay, equalsTasks,
                 plain, unlockTries, presses, mode, currentPin, vaultType, evidence,
                 locked, lastCall, calcFrame>>

\* The app was set up with the PINs 1111 (secret) and 1112 (decoy), both
\* vaults are empty, and AppProvider has finished checkSetup.
CalcInit ==
  /\ secure = [secretHash |-> hashPin(SecretKeys), decoyHash |-> hashPin(DecoyKeys),
               isSetup |-> "true"]
  /\ file = [t \in Types |-> Absent]
  /\ legacy = [t \in Types |-> Absent]
  /\ fsOk = [t \in Types |-> FALSE]
  /\ media = {}
  /\ nextId = 0
  /\ cfgWrite = NoConfig
  /\ lastCall = NoCall
  /\ everSaved = [t \in Types |-> FALSE]
  /\ addLog = [t \in Types |-> FreshLog]
  /\ mode = "calculator"
  /\ isLoading = FALSE
  /\ currentPin = ""
  /\ vaultType = "null"
  /\ evidence = <<>>
  /\ tasks = {}
  /\ alerts = ""
  /\ locked = TRUE
  /\ added = [t \in Types |-> {}]
  /\ InitSetup
  /\ InitCrypto
  /\ InitCalc

CalcNext ==
  \/ \E num \in CalcKeys : handleNumber(num)
  \/ \E op \in CalcOps : handleOperator(op)
  \/ handleEquals
  \/ \E k \in equalsTasks, f \in SecureFaults : EqualsResume(k, f)
  \/ handleClear
  \/ pinTimeoutFire

SpecCalc == CalcInit /\ [][CalcNext]_vars

\* ------------------------------------------------------- claims on SpecCalc
\* C29: unlockVault is called only by a '=' whose buffer holds PIN_LENGTH
\* characters or more, and while no unlock has succeeded and no '=' is
\* waiting for its PIN check, display, previousValue and operation are
\* those of a calculator whose '=' does the arithmetic only, given the same
\* keys.
C29_FailedUnlockIsPlainArithmetic ==
  /\ \A b \in unlockTries : Len(b) >= PIN_LENGTH
  /\ (mode = "calculator" /\ equalsTasks = {})
       => /\ display = plain.display
          /\ previousValue = plain.previousValue
          /\ operation = plain.operation

\* ------------------------------------------- SpecClear: wipe and set up again
\* The vaults of a set-up app are added to and loaded under the PINs of the
\* configuration; clearAllData may run at any time; an app that is not set
\* up is set up again, with the same PINs or with the two exchanged.
ClearPairs == {<<"1234", "0000">>, <<"0000", "1234">>}
ClearFaults == {"none", "async", "secure"}

\* The vault is reachable: set up, and no saveConfig in progress.
Usable == isAppSetup("none") /\ cfgWrite.pc = 0

\* clearAllData: multiRemove of the config key and the two legacy evidence
\* keys (a failure rejects the call), then the three SecureStore items, a
\* failed delete being swallowed. The vault files, the "_fs_ok" indicators
\* and the media files are not touched.
clearAllData(f) ==
  /\ cfgWrite.pc = 0
  /\ lastCall' = [op |-> "clearAllData", type |-> "", null |-> FALSE,
                  thrown |-> f = "async"]
  /\ legacy' = IF f = "async" THEN legacy ELSE [t \in Types |-> Absent]
  /\ secure' = IF f = "none"
               THEN [secretHash |-> NoHash, decoyHash |-> NoHash, isSetup |-> ""]
               ELSE secure
  /\ UNCHANGED <<file, fsOk, media, nextId, cfgWrite, everSaved, addLog>>
  /\ UNCHANGED <<sessVars, setupVars, cryptoVars, calcVars>>

ClLoad(p, t, f) == Usable /\ verifyPin(p, "none") = t /\ StLoad(p, t, f)

ClAdd(item, p, t, salt) ==
  Usable /\ CanCreate /\ verifyPin(p, "none") = t /\ StAdd(item, p, t, salt, "none", "none")

\* setupPins(s, d) on an app that is not set up.
ClSetupPins(s, d) ==
  /\ ~isAppSetup("none")
  /\ SetupPinsCall(s, d)
  /\ lastCall' = NoCall
  /\ UNCHANGED <<storeVars, nextId, everSaved, addLog, sessVars, step, pin, secretPin,
                 decoyPin, error, timers, cryptoVars, calcVars>>

\* The next SecureStore write of that setupPins call.
ClWrite ==
  /\ saveConfigWrite("none")
  /\ lastCall' = [op |-> IF cfgWrite.pc = 3 THEN "saveConfig" ELSE "", type |-> "",
                  null |-> FALSE, thrown |-> FALSE]
  /\ UNCHANGED <<file, legacy, fsOk, media, nextId, everSaved, addLog, sessVars,
                 setupVars, cryptoVars, calcVars>>

ClearInit ==
  /\ secure = [secretHash |-> hashPin("1234"), decoyHash |-> hashPin("0000"),
               isSetup |-> "true"]
  /\ file = [t \in Types |-> Absent]
  /\ legacy = [t \in Types |-> IF t = "secret" THEN LegacyBlob("1234") ELSE Absent]
  /\ fsOk = [t \in Types |-> FALSE]
  /\ media = {}
  /\ nextId = 0
  /\ cfgWrite = NoConfig
  /\ lastCall = NoCall
  /\ everSaved = [t \in Types |-> FALSE]
  /\ addLog = [t \in Types |-> FreshLog]
  /\ InitSession
  /\ InitSetup
  /\ InitCrypto
  /\ InitCalc

ClearNext ==
  \/ \E p \in StorePins, t \in Types, f \in LoadFaults : ClLoad(p, t, f)
  \/ \E item \in NewItems, p \in StorePins, t \in Types, salt \in Salts : ClAdd(item, p, t, salt)
  \/ \E f \in ClearFaults : clearAllData(f)
  \/ \E c \in ClearPairs : ClSetupPins(c[1], c[2])
  \/ ClWrite

SpecClear == ClearInit /\ [][ClearNext]_vars

\* ------------------------------------------------------ claims on SpecClear
\* C30: when clearAllData has completed, the app is not set up and no PIN
\* verifies; when a new setup has completed after it, loadEvidence returns
\* the empty list for each vault under that vault's PIN.
C30_ClearLeavesNothing ==
  /\ (lastCall.op = "clearAllData" /\ ~lastCall.thrown)
       => /\ ~isAppSetup("none")
          /\ \A p \in Pins : verifyPin(p, "none") = "invalid"
  /\ (lastCall.op = "saveConfig" /\ isAppSetup("none"))
       => \A p \in StorePins, t \in Types :
            verifyPin(p, "none") = t
              => loadEvidence(p, t, "none").res = ItemsResult(<<>>)

====
